---- MODULE Spec2Model ----
(***************************************************************************)
(* simplegrid.regrid.regrid: refinement of a rectangular sub-region of a   *)
(* corner-point grid (src/simplegrid/regrid.py).                           *)
(*                                                                         *)
(* Representation.  A numpy 2-D array is a record [nr, nc, a] with         *)
(* a[i][j] = [v |-> value, w |-> number of element assignments so far];    *)
(* np.zeros gives v = 0, w = 0.  Coordinates are integers: one degree of   *)
(* the source file is Unit model units, Unit being divisible by every      *)
(* product (2*lon_subscale)*(2*lat_subscale) of the model, so that every   *)
(* equally spaced intermediate point is again an integer.  The geodesic    *)
(* service (pyproj.Geod) and the helpers of simplegrid.util are not part   *)
(* of src/; they are modelled on a plane: npts is linear subdivision, inv  *)
(* returns the squared Euclidean distance, squad_uarea the doubled         *)
(* shoelace area.                                                          *)
(***************************************************************************)
EXTENDS Integers, Sequences, FiniteSets, TLC

\* ------------------------------------------------------------------ bounds
\* cells of the source mitgrid file in the nominal east-west / north-south
\* direction (arguments ni, nj of regrid)
NI == 4
NJ == 3
\* largest subscale factor of the general specification
MaxSub == 2
\* the subscale factor of tests/test_mkgrid.py, test_mkgrid_2
TestSub == 10
\* the corner points <<lon, lat>> of the tests, in degrees: lon1=1., lat1=2.
\* and lon2=2., lat2=1.
TestCorner1 == <<1, 2>>
TestCorner2 == <<2, 1>>

Subscales == (0 - 1) .. MaxSub
AreaSubscales == {1, TestSub}

Min(a, b) == IF a < b THEN a ELSE b
Max(a, b) == IF a > b THEN a ELSE b
Abs(a) == IF a < 0 THEN 0 - a ELSE a

RECURSIVE Gcd(_, _)
Gcd(a, b) == IF b = 0 THEN a ELSE Gcd(b, a % b)
Lcm(a, b) == (a * b) \div Gcd(a, b)
RECURSIVE LcmOf(_)
LcmOf(S) == IF S = {} THEN 1
            ELSE LET x == CHOOSE y \in S : TRUE IN Lcm(x, LcmOf(S \ {x}))

\* model units per degree
Unit == LcmOf({(2 * a) * (2 * b) : a \in 1 .. MaxSub, b \in 1 .. MaxSub}
              \cup {(2 * a) * (2 * b) : a \in AreaSubscales, b \in AreaSubscales})

\* ------------------------------------------------------------ numpy arrays
Elem(val, cnt) == [v |-> val, w |-> cnt]

\* np.zeros((nr, nc))
NpZeros(nr, nc) ==
    [nr |-> nr, nc |-> nc,
     a |-> [i \in 0 .. nr - 1 |-> [j \in 0 .. nc - 1 |-> Elem(0, 0)]]]

\* a name of the output dictionary that holds None
NoneArray == [nr |-> 0 - 1, nc |-> 0 - 1, a |-> <<>>]

\* A[i, j] = val
SetItem(A, i, j, val) ==
    [A EXCEPT !.a[i][j] = Elem(val, @.w + 1)]

\* A[i, j]
Item(A, i, j) == A.a[i][j].v

\* Python slice start:stop:step (step > 0) over an axis of length n; start
\* and stop are <<>> for an omitted bound, <<k>> for the integer k.  The
\* result is the selected indices first, first+step, ... (count of them).
SliceBound(b, dflt, n) ==
    IF b = <<>> THEN dflt
    ELSE LET k == IF b[1] < 0 THEN b[1] + n ELSE b[1]
         IN  Max(0, Min(n, k))

PySlice(start, stop, step, n) ==
    LET lo == SliceBound(start, 0, n)
        hi == SliceBound(stop, n, n)
    IN  [first |-> lo, step |-> step,
         count |-> IF hi > lo THEN (hi - lo + step - 1) \div step ELSE 0]

SliceAt(s, k) == s.first + k * s.step

\* the view A[si, sj]
NpView(A, si, sj) ==
    [nr |-> si.count, nc |-> sj.count,
     a |-> [m \in 0 .. si.count - 1 |->
              [n \in 0 .. sj.count - 1 |-> A.a[SliceAt(si, m)][SliceAt(sj, n)]]]]

\* ------------------------------------------------- geodesy (planar model)
\* geod.npts(lon1, lat1, lon2, lat2, n): the k-th (1..n) of n equally spaced
\* intermediate points, as <<lon, lat>>
GeodNpts(lon1, lat1, lon2, lat2, n, k) ==
    << lon1 + ((lon2 - lon1) * k) \div (n + 1),
       lat1 + ((lat2 - lat1) * k) \div (n + 1) >>

\* third result of geod.inv(lon1, lat1, lon2, lat2): the distance
GeodInv(lon1, lat1, lon2, lat2) ==
    (lon2 - lon1) * (lon2 - lon1) + (lat2 - lat1) * (lat2 - lat1)

\* util.squad_uarea(util.lonlat2cart(xg, yg)) * geod.a^2: one area for every
\* minimal quadrilateral (i,j), (i+1,j), (i+1,j+1), (i,j+1) of the lattice
QuadArea(xg, yg, i, j) ==
    Abs( (Item(xg, i + 1, j + 1) - Item(xg, i, j))
           * (Item(yg, i, j + 1) - Item(yg, i + 1, j))
       - (Item(xg, i, j + 1) - Item(xg, i + 1, j))
           * (Item(yg, i + 1, j + 1) - Item(yg, i, j)) )

SquadUarea(xg, yg) ==
    [nr |-> xg.nr - 1, nc |-> xg.nc - 1,
     a |-> [i \in 0 .. xg.nr - 2 |->
              [j \in 0 .. xg.nc - 2 |-> Elem(QuadArea(xg, yg, i, j), 1)]]]

\* --------------------------------------------------------- the source file
\* Corner longitudes and latitudes of the file, in degrees.  The cell between
\* corners (1, 1) and (2, 2) is the square lon in [1, 2], lat in [1, 2] of
\* the tests; around it the grid is non-uniform (cells 1 to 4 degrees wide)
\* and sheared by one degree.
SourceLon(i, j) ==
    (i + (i \div 3)) - (IF i = 0 THEN 2 ELSE 0) + (IF j \in {1, 2} THEN 0 ELSE 1)
SourceLat(i, j) ==
    (j + (j \div 3)) - (IF j = 0 THEN 2 ELSE 0) + (IF i \in {1, 2} THEN 0 ELSE 1)

\* gridio.read_mitgridfile(mitgridfile, ni, nj): XG and YG are (ni+1) x (nj+1)
ReadMitgridfile(ni, nj) ==
    [XG |-> [nr |-> ni + 1, nc |-> nj + 1,
             a |-> [i \in 0 .. ni |-> [j \in 0 .. nj |->
                       Elem(Unit * SourceLon(i, j), 1)]]],
     YG |-> [nr |-> ni + 1, nc |-> nj + 1,
             a |-> [i \in 0 .. ni |-> [j \in 0 .. nj |->
                       Elem(Unit * SourceLat(i, j), 1)]]]]

\* ------------------------------------------------------------------ step 1
\* (variant: the bounds taken in the order the corners were given)
IndexBoundsAsGiven(a1, b1, a2, b2) ==
    [ilb |-> a1, jlb |-> b1, iub |-> a2, jub |-> b2]

\* original grid index bounds based on user lon/lat selections
IndexBounds(a1, b1, a2, b2) ==
    [ilb |-> Min(a1, a2), jlb |-> Min(b1, b2),
     iub |-> Max(a1, a2), jub |-> Max(b1, b2)]

\* "plus one" grid extents
PlusOne(b) ==
    [iLB |-> b.ilb - 1, iUB |-> b.iub + 1, jLB |-> b.jlb - 1, jUB |-> b.jub + 1]

\* "compute grid" dimensions
NumComputeGridRows(b, ls) == (PlusOne(b).iUB - PlusOne(b).iLB) * ls * 2 + 1
NumComputeGridCols(b, lt) == (PlusOne(b).jUB - PlusOne(b).jLB) * lt * 2 + 1

\* index transformation from partitioned grid space to compute grid space
Icg(i, ls) == i * ls * 2
Jcg(j, lt) == j * lt * 2

\* (variant: only the row count is validated)
AllocRowsChecked(b, ls, lt) ==
    LET nr == (b.iub - b.ilb + 2) * ls * 2 + 1
        nc == (b.jub - b.jlb + 2) * lt * 2 + 1
    IN  IF nr < 0
        THEN [err |-> "ValueError: negative dimensions are not allowed",
              xg |-> [nr |-> 0 - 1, nc |-> 0 - 1, a |-> <<>>],
              yg |-> [nr |-> 0 - 1, nc |-> 0 - 1, a |-> <<>>]]
        ELSE [err |-> "",
              xg |-> [nr |-> nr, nc |-> nc,
                      a |-> [i \in 0 .. nr - 1 |-> [j \in 0 .. nc - 1 |->
                                [v |-> 0, w |-> 0]]]],
              yg |-> [nr |-> nr, nc |-> nc,
                      a |-> [i \in 0 .. nr - 1 |-> [j \in 0 .. nc - 1 |->
                                [v |-> 0, w |-> 0]]]]]

\* allocation of compute_grid_xg, compute_grid_yg
AllocComputeGrid(b, ls, lt) ==
    LET nr == NumComputeGridRows(b, ls)
        nc == NumComputeGridCols(b, lt)
    IN  IF nr < 0 \/ nc < 0
        THEN [err |-> "ValueError: negative dimensions are not allowed",
              xg |-> NoneArray, yg |-> NoneArray]
        ELSE [err |-> "", xg |-> NpZeros(nr, nc), yg |-> NpZeros(nr, nc)]

\* the partition mitgrid[...][iLB:iUB+1, jLB:jUB+1]
SeedSliceI(mg, b) ==
    PySlice(<<PlusOne(b).iLB>>, <<PlusOne(b).iUB + 1>>, 1, mg.XG.nr)
SeedSliceJ(mg, b) ==
    PySlice(<<PlusOne(b).jLB>>, <<PlusOne(b).jUB + 1>>, 1, mg.XG.nc)

\* one iteration of the seeding loop, multi_index = (p, q)
SeedStep(cg, mg, b, ls, lt, p, q) ==
    LET si == SeedSliceI(mg, b)
        sj == SeedSliceJ(mg, b)
    IN  [xg |-> SetItem(cg.xg, Icg(p, ls), Jcg(q, lt),
                        Item(mg.XG, SliceAt(si, p), SliceAt(sj, q))),
         yg |-> SetItem(cg.yg, Icg(p, ls), Jcg(q, lt),
                        Item(mg.YG, SliceAt(si, p), SliceAt(sj, q)))]

\* the seeding loop: nditer visits the partition (nc columns) in row-major
\* order, the iterations lo .. hi-1 in increasing order.  The range is split in
\* halves to keep the evaluation shallow (the order is unchanged), and each
\* intermediate grid is bound by a quantifier so that it is computed once.
RECURSIVE SeedLoop(_, _, _, _, _, _, _, _)
SeedLoop(cg, mg, b, ls, lt, nc, lo, hi) ==
    IF hi <= lo THEN cg
    ELSE IF hi = lo + 1
    THEN CHOOSE r \in {SeedStep(acc, mg, b, ls, lt, lo \div nc, lo % nc) : acc \in {cg}} : TRUE
    ELSE LET mid == (lo + hi) \div 2
         IN  CHOOSE r \in {SeedLoop(acc, mg, b, ls, lt, nc, mid, hi) :
                             acc \in {SeedLoop(cg, mg, b, ls, lt, nc, lo, mid)}} : TRUE

\* map mitgrid values to corresponding locations in compute_grid
Seed(cg, mg, b, ls, lt) ==
    IF SeedSliceI(mg, b).count * SeedSliceJ(mg, b).count = 0
    THEN [err |-> "ValueError: Iteration of zero-sized operands is not enabled",
          xg |-> cg.xg, yg |-> cg.yg]
    ELSE LET r == SeedLoop(cg, mg, b, ls, lt, SeedSliceJ(mg, b).count, 0,
                           SeedSliceI(mg, b).count * SeedSliceJ(mg, b).count)
         IN  [err |-> "", xg |-> r.xg, yg |-> r.yg]

\* ------------------------------------------------------------------ step 2
\* compute_grid[:-1:lon_subscale*2, ::lat_subscale*2]
FillXSliceI(cg, ls) == PySlice(<<>>, <<0 - 1>>, ls * 2, cg.xg.nr)
FillXSliceJ(cg, lt) == PySlice(<<>>, <<>>, lt * 2, cg.xg.nc)

\* the assignment of the n points of one subdivision to rows i0+1 .. i0+n of
\* column j (2a)
StoreXPoint(cg, pt, i, j) ==
    [xg |-> SetItem(cg.xg, i, j, pt[1]), yg |-> SetItem(cg.yg, i, j, pt[2])]
\* points lo .. hi-1 of the subdivision
RECURSIVE StoreXEdge(_, _, _, _, _, _, _, _, _, _)
StoreXEdge(cg, lon1, lat1, lon2, lat2, n, i0, j, lo, hi) ==
    IF hi <= lo THEN cg
    ELSE IF hi = lo + 1
    THEN CHOOSE r \in {StoreXPoint(acc, GeodNpts(lon1, lat1, lon2, lat2, n, lo), i0 + lo, j) : acc \in {cg}} : TRUE
    ELSE LET mid == (lo + hi) \div 2
         IN  CHOOSE r \in {StoreXEdge(acc, lon1, lat1, lon2, lat2, n, i0, j, mid, hi) :
                             acc \in {StoreXEdge(cg, lon1, lat1, lon2, lat2, n, i0, j, lo, mid)}} : TRUE

\* the compute grid positions read at multi_index (p, q) of loop 2a: p1 the
\* position of it[0], it[1], p2 the explicitly indexed end point
FillXEnds(cg, ls, lt, p, q) ==
    [p1 |-> <<SliceAt(FillXSliceI(cg, ls), p), SliceAt(FillXSliceJ(cg, lt), q)>>,
     p2 |-> <<Icg(p + 1, ls), Jcg(q, lt)>>]

\* (variant: the last point of every subdivision is not stored)
FillXStepShort(cg, ls, lt, p, q) ==
    StoreXEdge(cg,
               Item(cg.xg, p * ls * 2, q * lt * 2),
               Item(cg.yg, p * ls * 2, q * lt * 2),
               Item(cg.xg, (p + 1) * ls * 2, q * lt * 2),
               Item(cg.yg, (p + 1) * ls * 2, q * lt * 2),
               ls * 2 - 1,
               p * ls * 2, q * lt * 2, 1, ls * 2 - 1)

\* one iteration of loop 2a, multi_index = (p, q)
FillXStep(cg, ls, lt, p, q) ==
    LET e == FillXEnds(cg, ls, lt, p, q)
    IN  StoreXEdge(cg,
                   Item(cg.xg, e.p1[1], e.p1[2]),
                   Item(cg.yg, e.p1[1], e.p1[2]),
                   Item(cg.xg, e.p2[1], e.p2[2]),
                   Item(cg.yg, e.p2[1], e.p2[2]),
                   ls * 2 - 1,
                   Icg(p, ls), Jcg(q, lt), 1, ls * 2)

\* loop 2a over the partition (nc columns) in row-major order
RECURSIVE FillXLoop(_, _, _, _, _, _)
FillXLoop(cg, ls, lt, nc, lo, hi) ==
    IF hi <= lo THEN cg
    ELSE IF hi = lo + 1
    THEN CHOOSE r \in {FillXStep(acc, ls, lt, lo \div nc, lo % nc) : acc \in {cg}} : TRUE
    ELSE LET mid == (lo + hi) \div 2
         IN  CHOOSE r \in {FillXLoop(acc, ls, lt, nc, mid, hi) :
                             acc \in {FillXLoop(cg, ls, lt, nc, lo, mid)}} : TRUE

\* 2a: x-direction edges of the seeded rows
FillX(cg, ls, lt) ==
    IF ls * 2 = 0 \/ lt * 2 = 0
    THEN [err |-> "ValueError: slice step cannot be zero",
          xg |-> cg.xg, yg |-> cg.yg]
    ELSE LET r == FillXLoop(cg, ls, lt, FillXSliceJ(cg, lt).count, 0,
                            FillXSliceI(cg, ls).count * FillXSliceJ(cg, lt).count)
         IN  [err |-> "", xg |-> r.xg, yg |-> r.yg]

\* compute_grid[:, :-1:lat_subscale*2]
FillYSliceI(cg) == PySlice(<<>>, <<>>, 1, cg.xg.nr)
FillYSliceJ(cg, lt) == PySlice(<<>>, <<0 - 1>>, lt * 2, cg.xg.nc)

\* the assignment of the n points of one subdivision to columns j0+1 .. j0+n
\* of row i (2b)
\* points lo .. hi-1 of the subdivision
RECURSIVE StoreYEdge(_, _, _, _, _, _, _, _, _, _)
StoreYEdge(cg, lon1, lat1, lon2, lat2, n, i, j0, lo, hi) ==
    IF hi <= lo THEN cg
    ELSE IF hi = lo + 1
    THEN CHOOSE r \in {StoreXPoint(acc, GeodNpts(lon1, lat1, lon2, lat2, n, lo), i, j0 + lo) : acc \in {cg}} : TRUE
    ELSE LET mid == (lo + hi) \div 2
         IN  CHOOSE r \in {StoreYEdge(acc, lon1, lat1, lon2, lat2, n, i, j0, mid, hi) :
                             acc \in {StoreYEdge(cg, lon1, lat1, lon2, lat2, n, i, j0, lo, mid)}} : TRUE

\* the compute grid positions read at multi_index (p, q) of loop 2b
FillYEnds(cg, lt, p, q) ==
    [p1 |-> <<SliceAt(FillYSliceI(cg), p), SliceAt(FillYSliceJ(cg, lt), q)>>,
     p2 |-> <<p, Jcg(q + 1, lt)>>]

\* one iteration of loop 2b, multi_index = (p, q)
FillYStep(cg, lt, p, q) ==
    LET e == FillYEnds(cg, lt, p, q)
    IN  StoreYEdge(cg,
                   Item(cg.xg, e.p1[1], e.p1[2]),
                   Item(cg.yg, e.p1[1], e.p1[2]),
                   Item(cg.xg, e.p2[1], e.p2[2]),
                   Item(cg.yg, e.p2[1], e.p2[2]),
                   lt * 2 - 1,
                   p, Jcg(q, lt), 1, lt * 2)

\* loop 2b over the partition (nc columns) in row-major order
RECURSIVE FillYLoop(_, _, _, _, _)
FillYLoop(cg, lt, nc, lo, hi) ==
    IF hi <= lo THEN cg
    ELSE IF hi = lo + 1
    THEN CHOOSE r \in {FillYStep(acc, lt, lo \div nc, lo % nc) : acc \in {cg}} : TRUE
    ELSE LET mid == (lo + hi) \div 2
         IN  CHOOSE r \in {FillYLoop(acc, lt, nc, mid, hi) :
                             acc \in {FillYLoop(cg, lt, nc, lo, mid)}} : TRUE

\* 2b: all y-direction values
FillY(cg, lt) ==
    LET r == FillYLoop(cg, lt, FillYSliceJ(cg, lt).count, 0,
                       FillYSliceI(cg).count * FillYSliceJ(cg, lt).count)
    IN  [err |-> "", xg |-> r.xg, yg |-> r.yg]

\* ------------------------------------------------------------------ step 3
ComputeAreas(cg) == SquadUarea(cg.xg, cg.yg)

\* ------------------------------------------------------------------ step 4
\* slice stop points are exclusive: start:(stop-1+1):stride
inclusive == 1

\* mitgridfilefields.names
Names == {"XC", "YC", "DXF", "DYF", "RAC", "XG", "YG", "DXV",
          "DYU", "RAZ", "DXC", "DYC", "RAW", "RAS", "DXG", "DYG"}

\* outgrid = {key:None for key in mitgridfilefields.names}
NewOutgrid == [key \in Names |-> NoneArray]

ZeroSized == "ValueError: Iteration of zero-sized operands is not enabled"
Broadcast == "ValueError: operands could not be broadcast together"
OutOfBounds == "IndexError: index is out of bounds"
NoneSubscript == "TypeError: 'NoneType' object is not subscriptable"

\* A position field: the strided partition
\* grid[first_i:last_i:stride_i, first_j:last_j:stride_j]
Partition(grid, first_i, last_i, stride_i, first_j, last_j, stride_j) ==
    NpView(grid, PySlice(<<first_i>>, <<last_i>>, stride_i, grid.nr),
                 PySlice(<<first_j>>, <<last_j>>, stride_j, grid.nc))

\* (variant: nditer with the zerosize_ok flag)
EdgeLoopZeroSizeOk(xg, yg, shape_r, shape_c, si, sjx, sjy, I, J, di, dj) ==
    [err |-> "",
     out |-> [nr |-> shape_r, nc |-> shape_c,
              a |-> [m \in 0 .. shape_r - 1 |-> [n \in 0 .. shape_c - 1 |->
                 IF m < si.count /\ n < sjx.count
                 THEN [v |-> GeodInv(xg.a[SliceAt(si, m)][SliceAt(sjx, n)].v,
                                     yg.a[SliceAt(si, m)][SliceAt(sjy, n)].v,
                                     xg.a[I[m + di]][J[n + dj]].v,
                                     yg.a[I[m + di]][J[n + dj]].v),
                       w |-> 1]
                 ELSE [v |-> 0, w |-> 0]]]]]

\* An edge-length loop.  out = np.zeros(shape); nditer over the partitions
\* xg[si, sjx] and yg[si, sjy]; at multi_index (m, n): out[m, n] = third
\* result of geod.inv(it[0], it[1], xg[I[m+di], J[n+dj]], yg[I[m+di], J[n+dj]]).
\* nditer visits every multi_index of the partition exactly once.  ends[m][n]
\* records the indices read for element (m, n): x1, y1 the position of it[0],
\* it[1] in xg, yg and p2 the explicitly indexed second point.
EdgeLoop(xg, yg, shape_r, shape_c, si, sjx, sjy, I, J, di, dj) ==
    LET zeros == NpZeros(shape_r, shape_c)
    IN  IF sjx.count # sjy.count
        THEN [err |-> Broadcast, out |-> zeros, ends |-> <<>>]
        ELSE IF si.count * sjx.count = 0
        THEN [err |-> ZeroSized, out |-> zeros, ends |-> <<>>]
        ELSE IF \/ si.count > shape_r \/ sjx.count > shape_c
                \/ I[si.count - 1 + di] >= xg.nr
                \/ J[sjx.count - 1 + dj] >= xg.nc
             THEN [err |-> OutOfBounds, out |-> zeros, ends |-> <<>>]
        ELSE [err |-> "",
              ends |-> [m \in 0 .. si.count - 1 |-> [n \in 0 .. sjx.count - 1 |->
                 [x1 |-> <<SliceAt(si, m), SliceAt(sjx, n)>>,
                  y1 |-> <<SliceAt(si, m), SliceAt(sjy, n)>>,
                  p2 |-> <<I[m + di], J[n + dj]>>]]],
              out |-> [zeros EXCEPT !.a =
                 [m \in 0 .. shape_r - 1 |-> [n \in 0 .. shape_c - 1 |->
                    IF m < si.count /\ n < sjx.count
                    THEN Elem(GeodInv(Item(xg, SliceAt(si, m), SliceAt(sjx, n)),
                                      Item(yg, SliceAt(si, m), SliceAt(sjy, n)),
                                      Item(xg, I[m + di], J[n + dj]),
                                      Item(yg, I[m + di], J[n + dj])), 1)
                    ELSE Elem(0, 0)]]]]

\* The edge-length loop over the compute grid partitions
\* xg[first_i:last_i:stride_i, first_j:last_j:stride_jx] and
\* yg[first_i:last_i:stride_i, first_j:last_j:stride_jy]
CgEdgeLoop(cg, shape_r, shape_c, first_i, last_i, stride_i, first_j, last_j, stride_jx, stride_jy, I, J, di, dj) ==
    EdgeLoop(cg.xg, cg.yg, shape_r, shape_c,
             PySlice(<<first_i>>, <<last_i>>, stride_i, cg.xg.nr),
             PySlice(<<first_j>>, <<last_j>>, stride_jx, cg.xg.nc),
             PySlice(<<first_j>>, <<last_j>>, stride_jy, cg.yg.nc),
             I, J, di, dj)

\* An area loop.  out = np.zeros(shape); nditer over the partition
\* ca[first_i:last_i:stride_i, first_j:last_j:stride_j]; at multi_index
\* (m, n): out[m, n] = it[0] + ca[I[m]+1, J[n]] + ca[I[m]+1, J[n]+1]
\*                           + ca[I[m], J[n]+1].
\* reads[m][n] records the indices of the four cells read for element (m, n).
AreaLoop(ca, shape_r, shape_c, first_i, last_i, stride_i, first_j, last_j, stride_j, I, J) ==
    LET si == PySlice(<<first_i>>, <<last_i>>, stride_i, ca.nr)
        sj == PySlice(<<first_j>>, <<last_j>>, stride_j, ca.nc)
        zeros == NpZeros(shape_r, shape_c)
    IN  IF si.count * sj.count = 0
        THEN [err |-> ZeroSized, out |-> zeros, reads |-> <<>>]
        ELSE IF \/ si.count > shape_r \/ sj.count > shape_c
                \/ I[si.count - 1] + 1 >= ca.nr
                \/ J[sj.count - 1] + 1 >= ca.nc
             THEN [err |-> OutOfBounds, out |-> zeros, reads |-> <<>>]
        ELSE [err |-> "",
              reads |-> [m \in 0 .. si.count - 1 |-> [n \in 0 .. sj.count - 1 |->
                 {<<SliceAt(si, m), SliceAt(sj, n)>>, <<I[m] + 1, J[n]>>,
                  <<I[m] + 1, J[n] + 1>>, <<I[m], J[n] + 1>>}]],
              out |-> [zeros EXCEPT !.a =
                 [m \in 0 .. shape_r - 1 |-> [n \in 0 .. shape_c - 1 |->
                    IF m < si.count /\ n < sj.count
                    THEN Elem(Item(ca, SliceAt(si, m), SliceAt(sj, n))
                              + Item(ca, I[m] + 1, J[n])
                              + Item(ca, I[m] + 1, J[n] + 1)
                              + Item(ca, I[m], J[n] + 1), 1)
                    ELSE Elem(0, 0)]]]]

\* (variant: the partition of the cell centres starts at the first corner)
XCYCFromCorner(grid, b, ls, lt) ==
    NpView(grid,
           PySlice(<<ls * 2>>, <<ls * 2 + ((b.iub - b.ilb) * ls - 1) * 2 + 1>>,
                   2, grid.nr),
           PySlice(<<lt * 2 + 1>>,
                   <<lt * 2 + 1 + ((b.jub - b.jlb) * lt - 1) * 2 + 1>>,
                   2, grid.nc))

\* XC, YC directly from compute grid partitions
XCYC(grid, b, ls, lt) ==
    LET cg_first_i  == ls * 2 + 1
        cg_last_i   == cg_first_i + ((b.iub - b.ilb) * ls - 1) * 2 + inclusive
        cg_stride_i == 2
        cg_first_j  == lt * 2 + 1
        cg_last_j   == cg_first_j + ((b.jub - b.jlb) * lt - 1) * 2 + inclusive
        cg_stride_j == 2
    IN  Partition(grid, cg_first_i, cg_last_i, cg_stride_i,
                        cg_first_j, cg_last_j, cg_stride_j)

\* (variant: the stop point of the i partition is not made inclusive)
XGYGExclusive(grid, b, ls, lt) ==
    NpView(grid,
           PySlice(<<ls * 2>>, <<ls * 2 + (b.iub - b.ilb) * ls * 2>>, 2, grid.nr),
           PySlice(<<lt * 2>>, <<lt * 2 + (b.jub - b.jlb) * lt * 2 + 1>>, 2, grid.nc))

\* XG, YG directly from compute grid partitions
XGYG(grid, b, ls, lt) ==
    LET cg_first_i  == ls * 2
        cg_last_i   == cg_first_i + (b.iub - b.ilb) * ls * 2 + inclusive
        cg_stride_i == 2
        cg_first_j  == lt * 2
        cg_last_j   == cg_first_j + (b.jub - b.jlb) * lt * 2 + inclusive
        cg_stride_j == 2
    IN  Partition(grid, cg_first_i, cg_last_i, cg_stride_i,
                        cg_first_j, cg_last_j, cg_stride_j)

\* (variant: the DXG loop iterates with the zerosize_ok flag)
DXGZeroSizeOk(og, b, ls, lt) ==
    EdgeLoopZeroSizeOk(og.XG, og.YG,
                       (b.iub - b.ilb) * ls, (b.jub - b.jlb) * lt + 1,
                       PySlice(<<>>, <<0 - 1>>, 1, og.XG.nr),
                       PySlice(<<>>, <<>>, 1, og.XG.nc),
                       PySlice(<<>>, <<>>, 1, og.YG.nc),
                       [m \in Nat |-> m], [n \in Nat |-> n], 1, 0)

\* DXG computed from XG, YG values: nditer over XG[:-1,:], YG[:-1,:] of the
\* output dictionary (None cannot be sliced)
DXG(og, b, ls, lt) ==
    IF og.XG = NoneArray \/ og.YG = NoneArray
    THEN [err |-> NoneSubscript,
          out |-> NpZeros((b.iub - b.ilb) * ls, (b.jub - b.jlb) * lt + 1),
          ends |-> <<>>]
    ELSE EdgeLoop(og.XG, og.YG,
                  (b.iub - b.ilb) * ls, (b.jub - b.jlb) * lt + 1,
                  PySlice(<<>>, <<0 - 1>>, 1, og.XG.nr),
                  PySlice(<<>>, <<>>, 1, og.XG.nc),
                  PySlice(<<>>, <<>>, 1, og.YG.nc),
                  [m \in Nat |-> m], [n \in Nat |-> n], 1, 0)

\* (variant: an entry that holds None is sliced like an empty array)
DYGNoneAsEmpty(og, b, ls, lt) ==
    EdgeLoop(og.XG, og.YG,
             (b.iub - b.ilb) * ls + 1, (b.jub - b.jlb) * lt,
             PySlice(<<>>, <<>>, 1, og.XG.nr),
             PySlice(<<>>, <<0 - 1>>, 1, og.XG.nc),
             PySlice(<<>>, <<0 - 1>>, 1, og.YG.nc),
             [m \in Nat |-> m], [n \in Nat |-> n], 0, 1)

\* DYG computed from XG, YG values: nditer over XG[:,:-1], YG[:,:-1] of the
\* output dictionary
DYG(og, b, ls, lt) ==
    IF og.XG = NoneArray \/ og.YG = NoneArray
    THEN [err |-> NoneSubscript,
          out |-> NpZeros((b.iub - b.ilb) * ls + 1, (b.jub - b.jlb) * lt),
          ends |-> <<>>]
    ELSE EdgeLoop(og.XG, og.YG,
                  (b.iub - b.ilb) * ls + 1, (b.jub - b.jlb) * lt,
                  PySlice(<<>>, <<>>, 1, og.XG.nr),
                  PySlice(<<>>, <<0 - 1>>, 1, og.XG.nc),
                  PySlice(<<>>, <<0 - 1>>, 1, og.YG.nc),
                  [m \in Nat |-> m], [n \in Nat |-> n], 0, 1)

\* (variant: the partition and its index transformation start one row early)
RACShifted(ca, b, ls, lt) ==
    AreaLoop(ca, (b.iub - b.ilb) * ls, (b.jub - b.jlb) * lt,
             ls * 2 - 1, ls * 2 - 1 + ((b.iub - b.ilb) * ls - 1) * 2 + 1, 2,
             lt * 2, lt * 2 + ((b.jub - b.jlb) * lt - 1) * 2 + 1, 2,
             [i_n \in Nat |-> 2 * i_n + 2 * ls - 1],
             [j_n \in Nat |-> 2 * j_n + 2 * lt])

\* (variant: the index transformation lags the partition by one row)
RACLaggingIndex(ca, b, ls, lt) ==
    AreaLoop(ca, (b.iub - b.ilb) * ls, (b.jub - b.jlb) * lt,
             ls * 2, ls * 2 + ((b.iub - b.ilb) * ls - 1) * 2 + 1, 2,
             lt * 2, lt * 2 + ((b.jub - b.jlb) * lt - 1) * 2 + 1, 2,
             [i_n \in Nat |-> 2 * i_n + 2 * ls - 1],
             [j_n \in Nat |-> 2 * j_n + 2 * lt])

\* RAC computed from subcell area sums in compute_areas
RAC(ca, b, ls, lt) ==
    LET ca_first_i  == ls * 2
        ca_last_i   == ca_first_i + ((b.iub - b.ilb) * ls - 1) * 2 + inclusive
        ca_stride_i == 2
        ca_first_j  == lt * 2
        ca_last_j   == ca_first_j + ((b.jub - b.jlb) * lt - 1) * 2 + inclusive
        ca_stride_j == 2
    IN  AreaLoop(ca, (b.iub - b.ilb) * ls, (b.jub - b.jlb) * lt,
                 ca_first_i, ca_last_i, ca_stride_i,
                 ca_first_j, ca_last_j, ca_stride_j,
                 [i_n \in Nat |-> 2 * i_n + 2 * ls],
                 [j_n \in Nat |-> 2 * j_n + 2 * lt])

\* DXC vorticity cell edge lengths
DXC(cg, b, ls, lt) ==
    LET cg_first_i  == ls * 2 - 1
        cg_last_i   == cg_first_i + (b.iub - b.ilb) * ls * 2 + inclusive
        cg_stride_i == 2
        cg_first_j  == lt * 2 + 1
        cg_last_j   == cg_first_j + ((b.jub - b.jlb) * lt - 1) * 2 + inclusive
        cg_stride_j == 2
    IN  CgEdgeLoop(cg,
                 (b.iub - b.ilb) * ls + 1, (b.jub - b.jlb) * lt,
                 cg_first_i, cg_last_i, cg_stride_i,
                 cg_first_j, cg_last_j, cg_stride_i, cg_stride_j,
                 [i_n \in Nat |-> 2 * ls - 1 + 2 * i_n],
                 [j_n \in Nat |-> 2 * lt + 1 + 2 * j_n], 1, 0)

\* DYC vorticity cell edge lengths
DYC(cg, b, ls, lt) ==
    LET cg_first_i  == ls * 2 + 1
        cg_last_i   == cg_first_i + ((b.iub - b.ilb) * ls - 1) * 2 + inclusive
        cg_stride_i == 2
        cg_first_j  == lt * 2 - 1
        cg_last_j   == cg_first_j + (b.jub - b.jlb) * lt * 2 + inclusive
        cg_stride_j == 2
    IN  CgEdgeLoop(cg,
                 (b.iub - b.ilb) * ls, (b.jub - b.jlb) * lt + 1,
                 cg_first_i, cg_last_i, cg_stride_i,
                 cg_first_j, cg_last_j, cg_stride_i, cg_stride_j,
                 [i_n \in Nat |-> 2 * ls + 1 + 2 * i_n],
                 [j_n \in Nat |-> 2 * lt - 1 + 2 * j_n], 0, 1)

\* (variant: the stop point of the i partition is not made inclusive)
RAZExclusive(ca, b, ls, lt) ==
    AreaLoop(ca, (b.iub - b.ilb) * ls + 1, (b.jub - b.jlb) * lt + 1,
             ls * 2 - 1, ls * 2 - 1 + (b.iub - b.ilb) * ls * 2, 2,
             lt * 2 - 1, lt * 2 - 1 + (b.jub - b.jlb) * lt * 2 + 1, 2,
             [i_n \in Nat |-> 2 * ls - 1 + 2 * i_n],
             [j_n \in Nat |-> 2 * lt - 1 + 2 * j_n])

\* RAZ vorticity cell areas
RAZ(ca, b, ls, lt) ==
    LET ca_first_i  == ls * 2 - 1
        ca_last_i   == ca_first_i + (b.iub - b.ilb) * ls * 2 + inclusive
        ca_stride_i == 2
        ca_first_j  == lt * 2 - 1
        ca_last_j   == ca_first_j + (b.jub - b.jlb) * lt * 2 + inclusive
        ca_stride_j == 2
    IN  AreaLoop(ca, (b.iub - b.ilb) * ls + 1, (b.jub - b.jlb) * lt + 1,
                 ca_first_i, ca_last_i, ca_stride_i,
                 ca_first_j, ca_last_j, ca_stride_j,
                 [i_n \in Nat |-> 2 * ls - 1 + 2 * i_n],
                 [j_n \in Nat |-> 2 * lt - 1 + 2 * j_n])

\* DXV U cell edge lengths
DXV(cg, b, ls, lt) ==
    LET cg_first_i  == ls * 2 - 1
        cg_last_i   == cg_first_i + (b.iub - b.ilb) * ls * 2 + inclusive
        cg_stride_i == 2
        cg_first_j  == lt * 2
        cg_last_j   == cg_first_j + (b.jub - b.jlb) * lt * 2 + inclusive
        cg_stride_j == 2
    IN  CgEdgeLoop(cg,
                 (b.iub - b.ilb) * ls + 1, (b.jub - b.jlb) * lt + 1,
                 cg_first_i, cg_last_i, cg_stride_i,
                 cg_first_j, cg_last_j, cg_stride_i, cg_stride_j,
                 [i_n \in Nat |-> 2 * ls - 1 + 2 * i_n],
                 [j_n \in Nat |-> 2 * lt + 2 * j_n], 1, 0)

\* DYF U cell edge lengths
DYF(cg, b, ls, lt) ==
    LET cg_first_i  == ls * 2 + 1
        cg_last_i   == cg_first_i + ((b.iub - b.ilb) * ls - 1) * 2 + inclusive
        cg_stride_i == 2
        cg_first_j  == lt * 2
        cg_last_j   == cg_first_j + ((b.jub - b.jlb) * lt - 1) * 2 + inclusive
        cg_stride_j == 2
    IN  CgEdgeLoop(cg,
                 (b.iub - b.ilb) * ls, (b.jub - b.jlb) * lt,
                 cg_first_i, cg_last_i, cg_stride_i,
                 cg_first_j, cg_last_j, cg_stride_i, cg_stride_j,
                 [i_n \in Nat |-> 2 * ls + 1 + 2 * i_n],
                 [j_n \in Nat |-> 2 * lt + 2 * j_n], 0, 1)

\* (variant: the index transformation of the tracer cells is used for i)
RAWTracerIndex(ca, b, ls, lt) ==
    AreaLoop(ca, (b.iub - b.ilb) * ls + 1, (b.jub - b.jlb) * lt,
             ls * 2 - 1, ls * 2 - 1 + (b.iub - b.ilb) * ls * 2 + 1, 2,
             lt * 2, lt * 2 + ((b.jub - b.jlb) * lt - 1) * 2 + 1, 2,
             [i_n \in Nat |-> 2 * ls + 2 * i_n],
             [j_n \in Nat |-> 2 * lt + 2 * j_n])

\* RAW vertical face area of U cell
RAW(ca, b, ls, lt) ==
    LET ca_first_i  == ls * 2 - 1
        ca_last_i   == ca_first_i + (b.iub - b.ilb) * ls * 2 + inclusive
        ca_stride_i == 2
        ca_first_j  == lt * 2
        ca_last_j   == ca_first_j + ((b.jub - b.jlb) * lt - 1) * 2 + inclusive
        ca_stride_j == 2
    IN  AreaLoop(ca, (b.iub - b.ilb) * ls + 1, (b.jub - b.jlb) * lt,
                 ca_first_i, ca_last_i, ca_stride_i,
                 ca_first_j, ca_last_j, ca_stride_j,
                 [i_n \in Nat |-> 2 * ls - 1 + 2 * i_n],
                 [j_n \in Nat |-> 2 * lt + 2 * j_n])

\* (variant: the second point is taken in the column of the corners)
DXFCornerColumn(cg, b, ls, lt) ==
    CgEdgeLoop(cg, (b.iub - b.ilb) * ls, (b.jub - b.jlb) * lt,
               ls * 2, ls * 2 + ((b.iub - b.ilb) * ls - 1) * 2 + 1, 2,
               lt * 2 + 1, lt * 2 + 1 + ((b.jub - b.jlb) * lt - 1) * 2 + 1, 2, 2,
               [i_n \in Nat |-> 2 * ls + 2 * i_n],
               [j_n \in Nat |-> 2 * lt + 2 * j_n], 1, 0)

\* DXF V cell edge lengths
DXF(cg, b, ls, lt) ==
    LET cg_first_i  == ls * 2
        cg_last_i   == cg_first_i + ((b.iub - b.ilb) * ls - 1) * 2 + inclusive
        cg_stride_i == 2
        cg_first_j  == lt * 2 + 1
        cg_last_j   == cg_first_j + ((b.jub - b.jlb) * lt - 1) * 2 + inclusive
        cg_stride_j == 2
    IN  CgEdgeLoop(cg,
                 (b.iub - b.ilb) * ls, (b.jub - b.jlb) * lt,
                 cg_first_i, cg_last_i, cg_stride_i,
                 cg_first_j, cg_last_j, cg_stride_i, cg_stride_j,
                 [i_n \in Nat |-> 2 * ls + 2 * i_n],
                 [j_n \in Nat |-> 2 * lt + 1 + 2 * j_n], 1, 0)

\* (variant: the partition and its index transformation start one column
\* further into the halo)
DYUTwoBack(cg, b, ls, lt) ==
    CgEdgeLoop(cg, (b.iub - b.ilb) * ls + 1, (b.jub - b.jlb) * lt + 1,
               2 * ls, 2 * ls + (b.iub - b.ilb) * 2 * ls + 1, 2,
               2 * lt - 2, 2 * lt - 2 + (b.jub - b.jlb) * 2 * lt + 1, 2, 2,
               [i_n \in Nat |-> 2 * ls + 2 * i_n],
               [j_n \in Nat |-> 2 * lt - 2 + 2 * j_n], 0, 1)

\* DYU V cell western edge length
DYU(cg, b, ls, lt) ==
    LET cg_first_i  == 2 * ls
        cg_last_i   == cg_first_i + (b.iub - b.ilb) * 2 * ls + inclusive
        cg_stride_i == 2
        cg_first_j  == 2 * lt - 1
        cg_last_j   == cg_first_j + (b.jub - b.jlb) * 2 * lt + inclusive
        cg_stride_j == 2
    IN  CgEdgeLoop(cg,
                 (b.iub - b.ilb) * ls + 1, (b.jub - b.jlb) * lt + 1,
                 cg_first_i, cg_last_i, cg_stride_i,
                 cg_first_j, cg_last_j, cg_stride_j, cg_stride_j,
                 [i_n \in Nat |-> 2 * ls + 2 * i_n],
                 [j_n \in Nat |-> 2 * lt - 1 + 2 * j_n], 0, 1)

\* (variant: the index transformation of the tracer cells is used for j)
RASTracerIndex(ca, b, ls, lt) ==
    AreaLoop(ca, (b.iub - b.ilb) * ls, (b.jub - b.jlb) * lt + 1,
             2 * ls, 2 * ls + ((b.iub - b.ilb) * ls - 1) * 2 + 1, 2,
             2 * lt - 1, 2 * lt - 1 + (b.jub - b.jlb) * lt * 2 + 1, 2,
             [i_n \in Nat |-> 2 * ls + 2 * i_n],
             [j_n \in Nat |-> 2 * lt + 2 * j_n])

\* RAS vertical face area of V cell
RAS(ca, b, ls, lt) ==
    LET ca_first_i  == 2 * ls
        ca_last_i   == ca_first_i + ((b.iub - b.ilb) * ls - 1) * 2 + inclusive
        ca_stride_i == 2
        ca_first_j  == 2 * lt - 1
        ca_last_j   == ca_first_j + (b.jub - b.jlb) * lt * 2 + inclusive
        ca_stride_j == 2
    IN  AreaLoop(ca, (b.iub - b.ilb) * ls, (b.jub - b.jlb) * lt + 1,
                 ca_first_i, ca_last_i, ca_stride_i,
                 ca_first_j, ca_last_j, ca_stride_j,
                 [i_n \in Nat |-> 2 * ls + 2 * i_n],
                 [j_n \in Nat |-> 2 * lt - 1 + 2 * j_n])

\* ------------------------------------------------------ nearest corner
\* util.nearest(lon, lat, XG, YG, geod): exhaustive scan in row-major order,
\* the first corner at the minimum distance
Nearest(lon, lat, XG, YG) ==
    LET idx == (0 .. XG.nr - 1) \X (0 .. XG.nc - 1)
        d(p) == GeodInv(lon, lat, Item(XG, p[1], p[2]), Item(YG, p[1], p[2]))
        before(p, q) == p[1] < q[1] \/ (p[1] = q[1] /\ p[2] <= q[2])
        best == CHOOSE p \in idx :
                  \A q \in idx : d(p) < d(q) \/ (d(p) = d(q) /\ before(p, q))
    IN  [i |-> best[1], j |-> best[2], dist |-> d(best)]

\* ------------------------------------------------------------ the program
VARIABLES
    pc,             \* position in regrid
    lon1, lat1, lon2, lat2,       \* range-defining corner points
    lon_subscale, lat_subscale,
    mitgrid,        \* dictionary read from the file
    i1, j1, i2, j2, \* located corner indices
    ilb, jlb, iub, jub,
    compute_grid,   \* [xg |-> compute_grid_xg, yg |-> compute_grid_yg]
    compute_areas,
    outgrid,
    ret,            \* returned cell counts <<newgrid_ni, newgrid_nj>>
    err             \* exception raised, "" if none

args == <<lon1, lat1, lon2, lat2, lon_subscale, lat_subscale>>
located == <<mitgrid, i1, j1, i2, j2>>
bounds == <<ilb, jlb, iub, jub>>
vars == <<pc, args, located, bounds, compute_grid, compute_areas, outgrid,
          ret, err>>

B == [ilb |-> ilb, jlb |-> jlb, iub |-> iub, jub |-> jub]

NoGrid == [xg |-> NoneArray, yg |-> NoneArray]

\* the point a quarter of a degree east of corner (i, j) of the file
Near(i, j) == <<Unit * SourceLon(i, j) + Unit \div 4, Unit * SourceLat(i, j)>>

\* the range-defining corner points a caller asks for
Queries == {Near(i, j) : i \in 0 .. NI, j \in 0 .. NJ}

InitWith(subs_lon, subs_lat, q1s, q2s) ==
    /\ pc = "locate"
    /\ lon_subscale \in subs_lon
    /\ lat_subscale \in subs_lat
    /\ \E q1 \in q1s, q2 \in q2s :
          /\ lon1 = q1[1] /\ lat1 = q1[2]
          /\ lon2 = q2[1] /\ lat2 = q2[2]
    /\ mitgrid = [XG |-> NoneArray, YG |-> NoneArray]
    /\ i1 = 0 /\ j1 = 0 /\ i2 = 0 /\ j2 = 0
    /\ ilb = 0 /\ jlb = 0 /\ iub = 0 /\ jub = 0
    /\ compute_grid = NoGrid
    /\ compute_areas = NoneArray
    /\ outgrid = NewOutgrid
    /\ ret = <<>>
    /\ err = ""

\* The arguments of the tests: the corner points (1, 2) and (2, 1) degrees,
\* north-west first, with both subscale factors 1 (test_mkgrid_1) or both 10
\* (test_mkgrid_2).  The tests make their grid with mkgrid, without a source
\* file; here the same arguments are given to regrid, on the file whose
\* cell (1, 1)-(2, 2) is that square.
InitArea ==
    \E s \in AreaSubscales :
       InitWith({s}, {s},
                {<<Unit * TestCorner1[1], Unit * TestCorner1[2]>>},
                {<<Unit * TestCorner2[1], Unit * TestCorner2[2]>>})

Init == InitWith(Subscales, Subscales, Queries, Queries) \/ InitArea

\* lines 85-93: read the file, locate the two corners
Locate ==
    /\ pc = "locate"
    /\ mitgrid' = ReadMitgridfile(NI, NJ)
    /\ LET n1 == Nearest(lon1, lat1, mitgrid'.XG, mitgrid'.YG)
           n2 == Nearest(lon2, lat2, mitgrid'.XG, mitgrid'.YG)
       IN  /\ i1' = n1.i /\ j1' = n1.j
           /\ i2' = n2.i /\ j2' = n2.j
    /\ pc' = "allocate"
    /\ UNCHANGED <<args, bounds, compute_grid, compute_areas, outgrid, ret, err>>

\* lines 118-130: index bounds, allocation of the compute grid
Allocate ==
    /\ pc = "allocate"
    /\ LET b == IndexBounds(i1, j1, i2, j2)
           r == AllocComputeGrid(b, lon_subscale, lat_subscale)
       IN  /\ ilb' = b.ilb /\ jlb' = b.jlb /\ iub' = b.iub /\ jub' = b.jub
           /\ compute_grid' = IF r.err = "" THEN [xg |-> r.xg, yg |-> r.yg]
                              ELSE compute_grid
           /\ err' = r.err
           /\ pc' = IF r.err = "" THEN "seed" ELSE "raised"
    /\ UNCHANGED <<args, located, compute_areas, outgrid, ret>>

\* a step of regrid that rebuilds the compute grid or raises
GridStep(from, to, r) ==
    /\ pc = from
    /\ compute_grid' = [xg |-> r.xg, yg |-> r.yg]
    /\ err' = r.err
    /\ pc' = IF r.err = "" THEN to ELSE "raised"
    /\ UNCHANGED <<args, located, bounds, compute_areas, outgrid, ret>>

\* lines 132-148
Seeding ==
    GridStep("seed", "fill_x",
             Seed(compute_grid, mitgrid, B, lon_subscale, lat_subscale))

\* lines 177-202
FillXEdges ==
    GridStep("fill_x", "fill_y", FillX(compute_grid, lon_subscale, lat_subscale))

\* lines 215-240
FillYEdges ==
    GridStep("fill_y", "areas", FillY(compute_grid, lat_subscale))

\* lines 256-268
Areas ==
    /\ pc = "areas"
    /\ compute_areas' = ComputeAreas(compute_grid)
    /\ outgrid' = NewOutgrid
    /\ pc' = "XC"
    /\ UNCHANGED <<args, located, bounds, compute_grid, ret, err>>

\* a step of regrid that assigns the output field key from the loop result r
FieldStep(from, to, key, r) ==
    /\ pc = from
    /\ outgrid' = [outgrid EXCEPT ![key] = r.out]
    /\ err' = r.err
    /\ pc' = IF r.err = "" THEN to ELSE "raised"
    /\ UNCHANGED <<args, located, bounds, compute_grid, compute_areas, ret>>

\* lines 282-299
AssignXCYC ==
    /\ pc = "XC"
    /\ outgrid' = [outgrid EXCEPT
          !.XC = XCYC(compute_grid.xg, B, lon_subscale, lat_subscale),
          !.YC = XCYC(compute_grid.yg, B, lon_subscale, lat_subscale)]
    /\ pc' = "XG"
    /\ UNCHANGED <<args, located, bounds, compute_grid, compute_areas, ret, err>>

\* lines 306-323
AssignXGYG ==
    /\ pc = "XG"
    /\ outgrid' = [outgrid EXCEPT
          !.XG = XGYG(compute_grid.xg, B, lon_subscale, lat_subscale),
          !.YG = XGYG(compute_grid.yg, B, lon_subscale, lat_subscale)]
    /\ pc' = "DXG"
    /\ UNCHANGED <<args, located, bounds, compute_grid, compute_areas, ret, err>>

AssignDXG == FieldStep("DXG", "DYG", "DXG", DXG(outgrid, B, lon_subscale, lat_subscale))
AssignDYG == FieldStep("DYG", "RAC", "DYG", DYG(outgrid, B, lon_subscale, lat_subscale))
AssignRAC == FieldStep("RAC", "DXC", "RAC", RAC(compute_areas, B, lon_subscale, lat_subscale))
AssignDXC == FieldStep("DXC", "DYC", "DXC", DXC(compute_grid, B, lon_subscale, lat_subscale))
AssignDYC == FieldStep("DYC", "RAZ", "DYC", DYC(compute_grid, B, lon_subscale, lat_subscale))
AssignRAZ == FieldStep("RAZ", "DXV", "RAZ", RAZ(compute_areas, B, lon_subscale, lat_subscale))
AssignDXV == FieldStep("DXV", "DYF", "DXV", DXV(compute_grid, B, lon_subscale, lat_subscale))
AssignDYF == FieldStep("DYF", "RAW", "DYF", DYF(compute_grid, B, lon_subscale, lat_subscale))
AssignRAW == FieldStep("RAW", "DXF", "RAW", RAW(compute_areas, B, lon_subscale, lat_subscale))
AssignDXF == FieldStep("DXF", "DYU", "DXF", DXF(compute_grid, B, lon_subscale, lat_subscale))
AssignDYU == FieldStep("DYU", "RAS", "DYU", DYU(compute_grid, B, lon_subscale, lat_subscale))
AssignRAS == FieldStep("RAS", "return", "RAS", RAS(compute_areas, B, lon_subscale, lat_subscale))

\* line 741
Return ==
    /\ pc = "return"
    /\ ret' = <<(iub - ilb) * lon_subscale, (jub - jlb) * lat_subscale>>
    /\ pc' = "done"
    /\ UNCHANGED <<args, located, bounds, compute_grid, compute_areas, outgrid, err>>

Next ==
    \/ Locate \/ Allocate \/ Seeding \/ FillXEdges \/ FillYEdges \/ Areas
    \/ AssignXCYC \/ AssignXGYG \/ AssignDXG \/ AssignDYG \/ AssignRAC
    \/ AssignDXC \/ AssignDYC \/ AssignRAZ \/ AssignDXV \/ AssignDYF
    \/ AssignRAW \/ AssignDXF \/ AssignDYU \/ AssignRAS \/ Return

Spec == Init /\ [][Next]_vars

\* ------------------------------------------------- regrid as one function
\* regrid(mitgridfile, ni, nj, lon1, lat1, lon2, lat2, lon_subscale,
\* lat_subscale): the exception raised, or (newgrid, newgrid_ni, newgrid_nj)
RegridFrom(mg, a1, b1, a2, b2, ls, lt) ==
    LET b   == IndexBounds(a1, b1, a2, b2)
        al  == AllocComputeGrid(b, ls, lt)
        sd  == Seed(al, mg, b, ls, lt)
        fx  == FillX(sd, ls, lt)
        fy  == FillY(fx, lt)
        ca  == ComputeAreas(fy)
        og  == [NewOutgrid EXCEPT
                  !.XC = XCYC(fy.xg, b, ls, lt), !.YC = XCYC(fy.yg, b, ls, lt),
                  !.XG = XGYG(fy.xg, b, ls, lt), !.YG = XGYG(fy.yg, b, ls, lt)]
        dxg == DXG(og, b, ls, lt)
        dyg == DYG(og, b, ls, lt)
        raised(e) == [err |-> e, newgrid |-> NewOutgrid, ni |-> 0, nj |-> 0]
    IN  IF al.err # "" THEN raised(al.err)
        ELSE IF sd.err # "" THEN raised(sd.err)
        ELSE IF fx.err # "" THEN raised(fx.err)
        ELSE IF dxg.err # "" THEN raised(dxg.err)
        ELSE IF dyg.err # "" THEN raised(dyg.err)
        ELSE [err |-> "",
              newgrid |-> [og EXCEPT
                 !.DXG = dxg.out, !.DYG = dyg.out,
                 !.RAC = RAC(ca, b, ls, lt).out,
                 !.DXC = DXC(fy, b, ls, lt).out,
                 !.DYC = DYC(fy, b, ls, lt).out,
                 !.RAZ = RAZ(ca, b, ls, lt).out,
                 !.DXV = DXV(fy, b, ls, lt).out,
                 !.DYF = DYF(fy, b, ls, lt).out,
                 !.RAW = RAW(ca, b, ls, lt).out,
                 !.DXF = DXF(fy, b, ls, lt).out,
                 !.DYU = DYU(fy, b, ls, lt).out,
                 !.RAS = RAS(ca, b, ls, lt).out],
              ni |-> (b.iub - b.ilb) * ls, nj |-> (b.jub - b.jlb) * lt]

Regrid(x1, y1, x2, y2, ls, lt) ==
    LET mg == ReadMitgridfile(NI, NJ)
        n1 == Nearest(x1, y1, mg.XG, mg.YG)
        n2 == Nearest(x2, y2, mg.XG, mg.YG)
    IN  RegridFrom(mg, n1.i, n1.j, n2.i, n2.j, ls, lt)

\* what the call in progress has returned or raised
Outcome ==
    IF pc = "done"
    THEN [err |-> "", newgrid |-> outgrid, ni |-> ret[1], nj |-> ret[2]]
    ELSE [err |-> err, newgrid |-> NewOutgrid, ni |-> 0, nj |-> 0]

Finished == pc \in {"done", "raised"}

\* the steps of the state machine compose to the function
StepsAgree ==
    Finished => Outcome = Regrid(lon1, lat1, lon2, lat2, lon_subscale, lat_subscale)

\* ===================================================================
\* Properties
\* ===================================================================
\* refined cell counts of the selected region
M == (iub - ilb) * lon_subscale
N == (jub - jlb) * lat_subscale

Shape(A) == <<A.nr, A.nc>>

EdgeFields == {"DXG", "DYG", "DXC", "DYC", "DXV", "DYF", "DXF", "DYU"}
AreaFields == {"RAC", "RAZ", "RAW", "RAS"}

\* C1: a returned grid has XC, YC, RAC, DYF, DXF of shape M x N; XG, YG, RAZ,
\* DXV, DYU of shape (M+1) x (N+1); DXG, DYC, RAS of shape M x (N+1); DYG,
\* DXC, RAW of shape (M+1) x N.
C1_Shapes ==
    pc = "done" =>
      /\ iub > ilb /\ jub > jlb /\ lon_subscale >= 1 /\ lat_subscale >= 1
      /\ \A k \in {"XC", "YC", "RAC", "DYF", "DXF"} :
            Shape(outgrid[k]) = <<M, N>>
      /\ \A k \in {"XG", "YG", "RAZ", "DXV", "DYU"} :
            Shape(outgrid[k]) = <<M + 1, N + 1>>
      /\ \A k \in {"DXG", "DYC", "RAS"} : Shape(outgrid[k]) = <<M, N + 1>>
      /\ \A k \in {"DYG", "DXC", "RAW"} : Shape(outgrid[k]) = <<M + 1, N>>
      /\ \A k \in Names : /\ DOMAIN outgrid[k].a = 0 .. outgrid[k].nr - 1
                          /\ \A i \in DOMAIN outgrid[k].a :
                                DOMAIN outgrid[k].a[i] = 0 .. outgrid[k].nc - 1

\* a grid of 4 x 1 cells is returned for a 2 x 1 region refined by 2 and 1
C1_Witness ==
    /\ pc = "done" /\ iub - ilb = 2 /\ jub - jlb = 1
    /\ lon_subscale = 2 /\ lat_subscale = 1
    /\ Shape(outgrid.DXC) = <<5, 1>>

\* C2: in a returned grid every original corner of the region is found
\* unchanged in XG and YG, at (m*lon_subscale, n*lat_subscale).
C2_CornersKept ==
    pc = "done" =>
      \A m \in 0 .. iub - ilb, n \in 0 .. jub - jlb :
         /\ Item(outgrid.XG, m * lon_subscale, n * lat_subscale)
              = Item(mitgrid.XG, ilb + m, jlb + n)
         /\ Item(outgrid.YG, m * lon_subscale, n * lat_subscale)
              = Item(mitgrid.YG, ilb + m, jlb + n)

\* C3: the bounds are ordered; the returned counts are |i2-i1|*lon_subscale
\* and |j2-j1|*lat_subscale and are the two dimensions of XC; the outcome is
\* the same when the two corner points are given in the other order.
C3_CountsAndOrder ==
    /\ pc \notin {"locate", "allocate"} => ilb <= iub /\ jlb <= jub
    /\ pc = "done" =>
          /\ ret = <<Abs(i2 - i1) * lon_subscale, Abs(j2 - j1) * lat_subscale>>
          /\ Shape(outgrid.XC) = ret
    /\ Finished =>
          Outcome = Regrid(lon2, lat2, lon1, lat1, lon_subscale, lat_subscale)

\* a grid is returned for corners given in descending i and ascending j
C3_Witness ==
    pc = "done" /\ i1 > i2 /\ j1 < j2 /\ ret = <<2, 2>> /\ lon_subscale = 1

\* C4 as stated: with a subscale factor below 1 the call fails before the
\* compute grid is allocated.
C4_RejectedBeforeAllocation ==
    (lon_subscale < 1 \/ lat_subscale < 1) => compute_grid = NoGrid

\* C4 as amended: with a subscale factor below 1 the call raises and returns
\* nothing; it gets no further than the x-edge fill and assembles no output
\* field; with a negative factor the compute grid is never allocated (with
\* a zero factor it is allocated, and seeded unless the seeding raises).
C4_RaisesBeforeAssembly ==
    (lon_subscale < 1 \/ lat_subscale < 1) =>
      /\ pc \in {"locate", "allocate", "seed", "fill_x", "raised"}
      /\ outgrid = NewOutgrid /\ ret = <<>>
      /\ pc = "raised" => err # ""
      /\ (lon_subscale < 0 \/ lat_subscale < 0) => compute_grid = NoGrid
      /\ (pc \in {"seed", "fill_x"}) => compute_grid # NoGrid

\* a zero factor is detected by the x-edge fill, on a seeded compute grid
C4_Witness ==
    /\ pc = "raised" /\ lon_subscale = 0 /\ lat_subscale = 1
    /\ err = "ValueError: slice step cannot be zero"
    /\ compute_grid # NoGrid
    /\ compute_grid.xg.a[0][0].w > 0

\* C5 as stated: when the located corners coincide in an axis (and both
\* factors are at least 1) the error the call fails with is InvalidRegion.
C5_InvalidRegionRaised ==
    (/\ pc = "raised" /\ (i1 = i2 \/ j1 = j2)
     /\ lon_subscale >= 1 /\ lat_subscale >= 1) => err = "InvalidRegion"

\* C5 as amended: when the located corners coincide in an axis the call
\* raises and returns nothing, and never gets beyond the DYG loop.  With
\* both factors at least 1 the error is numpy's ValueError for a zero-sized
\* operand of nditer, raised either by the seeding loop, before anything is
\* written to the compute grid or assigned to the output dictionary, or by
\* the DXG loop (i1 = i2) or the DYG loop (i1 # i2, j1 = j2), after XC, YC,
\* XG and YG were assigned with a zero-sized XC to the output dictionary
\* that is never returned.
C5_DegenerateRejected ==
    (pc # "locate" /\ (i1 = i2 \/ j1 = j2)) =>
      /\ pc \in {"allocate", "seed", "fill_x", "fill_y", "areas",
                 "XC", "XG", "DXG", "DYG", "raised"}
      /\ ret = <<>>
      /\ pc = "raised" => err # ""
      /\ (pc = "raised" /\ lon_subscale >= 1 /\ lat_subscale >= 1) =>
            /\ err = ZeroSized
            /\ \/ /\ outgrid = NewOutgrid
                  /\ compute_grid.xg.a[0][0].w = 0
               \/ /\ i1 = i2
                  /\ outgrid.XC # NoneArray /\ outgrid.XC.nr = 0
                  /\ outgrid.XG # NoneArray
                  /\ outgrid.DXG # NoneArray /\ outgrid.DYG = NoneArray
               \/ /\ i1 # i2 /\ j1 = j2
                  /\ outgrid.XC # NoneArray /\ outgrid.XC.nc = 0
                  /\ outgrid.XG # NoneArray
                  /\ outgrid.DYG # NoneArray /\ outgrid.RAC = NoneArray

\* a region of zero width raises in the DXG loop, after the position fields
\* were assigned
C5_Witness ==
    /\ pc = "raised" /\ i1 = i2 /\ j1 # j2
    /\ lon_subscale >= 1 /\ lat_subscale >= 1
    /\ err = ZeroSized
    /\ outgrid.XC # NoneArray /\ outgrid.XC.nr = 0
    /\ outgrid.XG # NoneArray /\ outgrid.XG.nr = 1

\* C6: after seeding, every anchor (p*2*lon_subscale, q*2*lat_subscale) of
\* the padded region holds source corner (ilb-1+p, jlb-1+q), for every
\* corner of the padded region that the file has.
C6_AnchorsVerbatim ==
    (/\ pc = "fill_x" /\ i1 # i2 /\ j1 # j2
     /\ lon_subscale >= 1 /\ lat_subscale >= 1) =>
      \A p \in 0 .. iub - ilb + 2, q \in 0 .. jub - jlb + 2 :
         (ilb - 1 + p \in 0 .. NI /\ jlb - 1 + q \in 0 .. NJ) =>
            /\ Item(compute_grid.xg, p * 2 * lon_subscale, q * 2 * lat_subscale)
                 = Item(mitgrid.XG, ilb - 1 + p, jlb - 1 + q)
            /\ Item(compute_grid.yg, p * 2 * lon_subscale, q * 2 * lat_subscale)
                 = Item(mitgrid.YG, ilb - 1 + p, jlb - 1 + q)

\* C7: with both subscale factors 1 a returned grid has the cell counts of
\* the region, and XG, YG are the source XG, YG over [ilb..iub] x [jlb..jub].
C7_IdentityAtOne ==
    (pc = "done" /\ lon_subscale = 1 /\ lat_subscale = 1) =>
      /\ ret = <<iub - ilb, jub - jlb>>
      /\ Shape(outgrid.XG) = <<iub - ilb + 1, jub - jlb + 1>>
      /\ \A m \in 0 .. iub - ilb, n \in 0 .. jub - jlb :
            /\ Item(outgrid.XG, m, n) = Item(mitgrid.XG, ilb + m, jlb + n)
            /\ Item(outgrid.YG, m, n) = Item(mitgrid.YG, ilb + m, jlb + n)

\* the sum of all elements of an array
RECURSIVE SumTo(_, _)
SumTo(f, n) == IF n < 0 THEN 0 ELSE f[n] + SumTo(f, n - 1)
Total(A) ==
    SumTo([i \in 0 .. A.nr - 1 |->
              SumTo([j \in 0 .. A.nc - 1 |-> A.a[i][j].v], A.nc - 1)], A.nr - 1)

\* C8: the sum of RAC over the returned grid is the sum (the single RAC
\* value, for a region of one cell) returned for the same corner points with
\* both subscale factors 1; in particular for the corner points (1, 2) and
\* (2, 1) of the tests with both factors 10.
C8_AreaConserved ==
    pc = "done" =>
       Total(outgrid.RAC)
         = Total(Regrid(lon1, lat1, lon2, lat2, 1, 1).newgrid.RAC)

\* the 10 x 10 grid of the one-cell region of the tests, the square lon in
\* [1, 2], lat in [1, 2], has been returned
C8_Witness ==
    /\ pc = "done" /\ iub - ilb = 1 /\ jub - jlb = 1
    /\ <<lon1, lat1>> = <<Unit * TestCorner1[1], Unit * TestCorner1[2]>>
    /\ <<lon2, lat2>> = <<Unit * TestCorner2[1], Unit * TestCorner2[2]>>
    /\ Item(mitgrid.XG, ilb, jlb) = Unit /\ Item(mitgrid.YG, ilb, jlb) = Unit
    /\ Item(mitgrid.XG, iub, jub) = 2 * Unit /\ Item(mitgrid.YG, iub, jub) = 2 * Unit
    /\ Item(mitgrid.XG, ilb, jub) = Unit /\ Item(mitgrid.YG, iub, jlb) = Unit
    /\ lon_subscale = TestSub /\ lat_subscale = TestSub
    /\ Shape(outgrid.RAC) = <<TestSub, TestSub>>
    /\ Shape(Regrid(lon1, lat1, lon2, lat2, 1, 1).newgrid.RAC) = <<1, 1>>
    /\ Total(outgrid.RAC) > 0

\* C9: a call ends raised, with nothing returned, or returns a grid in which
\* every name is assigned and every element of every edge-length and area
\* field has been written exactly once.
C9_AllOrNothing ==
    /\ pc = "raised" => err # "" /\ ret = <<>>
    /\ pc # "done" => ret = <<>>
    /\ pc = "done" =>
          /\ err = ""
          /\ \A k \in Names : outgrid[k] # NoneArray
          /\ \A k \in EdgeFields \cup AreaFields :
                \A i \in 0 .. outgrid[k].nr - 1, j \in 0 .. outgrid[k].nc - 1 :
                   outgrid[k].a[i][j].w = 1

\* a grid with all its fields is returned for a 1 x 2 region refined by 2, 1
C9_Witness ==
    /\ pc = "done" /\ iub - ilb = 1 /\ jub - jlb = 2
    /\ lon_subscale = 2 /\ lat_subscale = 1
    /\ outgrid.RAS.a[1][2].w = 1

\* the sum of the 2 x 2 block of compute_areas whose least corner is (i0, j0)
Block(i0, j0) ==
    Item(compute_areas, i0, j0) + Item(compute_areas, i0 + 1, j0)
      + Item(compute_areas, i0, j0 + 1) + Item(compute_areas, i0 + 1, j0 + 1)

\* C10: with a = 2*lon_subscale and b = 2*lat_subscale every element [m, n]
\* of a returned area field is the sum of the 2 x 2 block of compute_areas
\* at (a+2m, b+2n) for RAC, (a-1+2m, b-1+2n) for RAZ, (a-1+2m, b+2n) for
\* RAW and (a+2m, b-1+2n) for RAS.
C10_AreaBlocks ==
    pc = "done" =>
      LET a == 2 * lon_subscale
          b == 2 * lat_subscale
          Is(k, di, dj) ==
             \A m \in 0 .. outgrid[k].nr - 1, n \in 0 .. outgrid[k].nc - 1 :
                Item(outgrid[k], m, n) = Block(a + di + 2 * m, b + dj + 2 * n)
      IN  /\ Is("RAC", 0, 0)
          /\ Is("RAZ", 0 - 1, 0 - 1)
          /\ Is("RAW", 0 - 1, 0)
          /\ Is("RAS", 0, 0 - 1)

\* area fields of a 2 x 2 region refined by 2 and 2 have been returned
C10_Witness ==
    /\ pc = "done" /\ iub - ilb = 2 /\ jub - jlb = 2
    /\ lon_subscale = 2 /\ lat_subscale = 2
    /\ Item(outgrid.RAW, 4, 3) = Block(11, 10)
    /\ Item(outgrid.RAW, 4, 3) > 0

\* the loop that assembles area field k, on the grids of the current state
AreaOf(k) ==
    CASE k = "RAC" -> RAC(compute_areas, B, lon_subscale, lat_subscale)
      [] k = "RAZ" -> RAZ(compute_areas, B, lon_subscale, lat_subscale)
      [] k = "RAW" -> RAW(compute_areas, B, lon_subscale, lat_subscale)
      [] k = "RAS" -> RAS(compute_areas, B, lon_subscale, lat_subscale)

\* the sum of compute_areas over a set of cell indices
RECURSIVE AreaSum(_)
AreaSum(S) ==
    IF S = {} THEN 0
    ELSE LET p == CHOOSE q \in S : TRUE
         IN  Item(compute_areas, p[1], p[2]) + AreaSum(S \ {p})

\* all cells read by the loop result r
AllReads(r) ==
    UNION {r.reads[m][n] : m \in DOMAIN r.reads, n \in DOMAIN r.reads[0]}

\* the compute_areas cells of the selected region (without the halo)
RegionCells ==
    (2 * lon_subscale .. 2 * lon_subscale + 2 * M - 1)
      \X (2 * lat_subscale .. 2 * lat_subscale + 2 * N - 1)

\* C11: in a returned grid every element of an area field is the sum of the
\* four compute_areas cells its loop iteration read, no cell is read for two
\* elements of one field, and the cells read for RAC are exactly the cells
\* [2*lon_subscale, 2*lon_subscale+2M-1] x [2*lat_subscale,
\* 2*lat_subscale+2N-1], so that the sum of RAC is the sum of the non-halo
\* cells.
C11_BlocksDisjoint ==
    pc = "done" =>
      /\ \A k \in AreaFields :
            LET r == AreaOf(k)
            IN  /\ r.err = ""
                /\ DOMAIN r.reads = 0 .. outgrid[k].nr - 1
                /\ \A m \in DOMAIN r.reads :
                      /\ DOMAIN r.reads[m] = 0 .. outgrid[k].nc - 1
                      /\ \A n \in DOMAIN r.reads[m] :
                            /\ Cardinality(r.reads[m][n]) = 4
                            /\ Item(outgrid[k], m, n) = AreaSum(r.reads[m][n])
                /\ Cardinality(AllReads(r)) = 4 * outgrid[k].nr * outgrid[k].nc
      /\ AllReads(AreaOf("RAC")) = RegionCells
      /\ Total(outgrid.RAC) = AreaSum(RegionCells)

\* area fields of 2 x 4 cells have been returned; cell (1, 2) sums its block
C11_Witness ==
    /\ pc = "done" /\ M = 2 /\ N = 4 /\ lon_subscale = 1 /\ lat_subscale = 2
    /\ AreaOf("RAC").reads[1][2] = {<<4, 8>>, <<5, 8>>, <<4, 9>>, <<5, 9>>}
    /\ Total(outgrid.RAC) > 0

\* the cells of block S on its east, west, north or south side (i grows to
\* the east, j to the north)
East(S)  == {p \in S : \A q \in S : q[1] <= p[1]}
West(S)  == {p \in S : \A q \in S : q[1] >= p[1]}
North(S) == {p \in S : \A q \in S : q[2] <= p[2]}
South(S) == {p \in S : \A q \in S : q[2] >= p[2]}

\* C12: in a returned grid, with the tracer cell (m, n) being the block read
\* for RAC[m, n]: for 1 <= m <= M-1 the cells read for RAW[m, n] are the east
\* cells of tracer cell (m-1, n) and the west cells of (m, n); for 1 <= n <=
\* N-1 the cells read for RAS[m, n] are the north cells of (m, n-1) and the
\* south cells of (m, n); for 1 <= m <= M-1, 1 <= n <= N-1 the cells read for
\* RAZ[m, n] are the one cell next to the shared corner of each of the four
\* tracer cells (m-1, n-1), (m, n-1), (m-1, n), (m, n); and each of these
\* elements is the sum of the cells named.
C12_Staggerings ==
    pc = "done" =>
      LET rac == AreaOf("RAC").reads
          raw == AreaOf("RAW").reads
          ras == AreaOf("RAS").reads
          raz == AreaOf("RAZ").reads
          u(m, n) == East(rac[m - 1][n]) \cup West(rac[m][n])
          v(m, n) == North(rac[m][n - 1]) \cup South(rac[m][n])
          z(m, n) == (East(rac[m - 1][n - 1]) \cap North(rac[m - 1][n - 1]))
                       \cup (West(rac[m][n - 1]) \cap North(rac[m][n - 1]))
                       \cup (East(rac[m - 1][n]) \cap South(rac[m - 1][n]))
                       \cup (West(rac[m][n]) \cap South(rac[m][n]))
      IN  /\ \A m \in 1 .. M - 1, n \in 0 .. N - 1 :
                /\ raw[m][n] = u(m, n)
                /\ Item(outgrid.RAW, m, n) = AreaSum(u(m, n))
          /\ \A m \in 0 .. M - 1, n \in 1 .. N - 1 :
                /\ ras[m][n] = v(m, n)
                /\ Item(outgrid.RAS, m, n) = AreaSum(v(m, n))
          /\ \A m \in 1 .. M - 1, n \in 1 .. N - 1 :
                /\ raz[m][n] = z(m, n)
                /\ Cardinality(z(m, n)) = 4
                /\ Item(outgrid.RAZ, m, n) = AreaSum(z(m, n))

\* a grid of 2 x 2 cells has been returned: RAS[1, 1] is made of the north
\* cells of tracer cell (1, 0) and the south cells of tracer cell (1, 1)
C12_Witness ==
    /\ pc = "done" /\ M = 2 /\ N = 2 /\ lon_subscale = 2 /\ lat_subscale = 1
    /\ AreaOf("RAS").reads[1][1] = {<<6, 3>>, <<7, 3>>, <<6, 4>>, <<7, 4>>}
    /\ North(AreaOf("RAC").reads[1][0]) = {<<6, 3>>, <<7, 3>>}
    /\ Item(outgrid.RAS, 1, 1) > 0

\* the loop that assembles edge-length field k from the compute grid, on the
\* grids of the current state
EdgeOf(k) ==
    CASE k = "DXC" -> DXC(compute_grid, B, lon_subscale, lat_subscale)
      [] k = "DYC" -> DYC(compute_grid, B, lon_subscale, lat_subscale)
      [] k = "DXV" -> DXV(compute_grid, B, lon_subscale, lat_subscale)
      [] k = "DYF" -> DYF(compute_grid, B, lon_subscale, lat_subscale)
      [] k = "DXF" -> DXF(compute_grid, B, lon_subscale, lat_subscale)
      [] k = "DYU" -> DYU(compute_grid, B, lon_subscale, lat_subscale)

\* the distance between the compute grid points p and q
CgDistance(p, q) ==
    GeodInv(Item(compute_grid.xg, p[1], p[2]), Item(compute_grid.yg, p[1], p[2]),
            Item(compute_grid.xg, q[1], q[2]), Item(compute_grid.yg, q[1], q[2]))

\* every element [m, n] of field k is the distance from the compute grid
\* point first + (2m, 2n) to the point step further on
EdgeFrom(k, first, step) ==
    \A m \in 0 .. outgrid[k].nr - 1, n \in 0 .. outgrid[k].nc - 1 :
       LET p == <<first[1] + 2 * m, first[2] + 2 * n>>
           q == <<p[1] + step[1], p[2] + step[2]>>
       IN  /\ Item(outgrid[k], m, n) = CgDistance(p, q)
           /\ k \notin {"DXG", "DYG"} =>
                 LET e == EdgeOf(k).ends[m][n]
                 IN  e.x1 = p /\ e.y1 = p /\ e.p2 = q

\* C13: with a = 2*lon_subscale and b = 2*lat_subscale every element [m, n]
\* of a returned edge-length field is the distance between two compute grid
\* points 2 apart in i (DXG, DXC, DXV, DXF) or 2 apart in j (DYG, DYC, DYF,
\* DYU), the first being (a+2m, b+2n) for DXG and DYG, (a-1+2m, b+1+2n) for
\* DXC, (a+1+2m, b-1+2n) for DYC, (a-1+2m, b+2n) for DXV, (a+1+2m, b+2n)
\* for DYF, (a+2m, b+1+2n) for DXF and (a+2m, b-1+2n) for DYU; for the
\* fields read from the compute grid these are the indices the loop reads.
C13_EdgeEndpoints ==
    pc = "done" =>
      LET a == 2 * lon_subscale
          b == 2 * lat_subscale
      IN  /\ EdgeFrom("DXG", <<a, b>>, <<2, 0>>)
          /\ EdgeFrom("DYG", <<a, b>>, <<0, 2>>)
          /\ EdgeFrom("DXC", <<a - 1, b + 1>>, <<2, 0>>)
          /\ EdgeFrom("DYC", <<a + 1, b - 1>>, <<0, 2>>)
          /\ EdgeFrom("DXV", <<a - 1, b>>, <<2, 0>>)
          /\ EdgeFrom("DYF", <<a + 1, b>>, <<0, 2>>)
          /\ EdgeFrom("DXF", <<a, b + 1>>, <<2, 0>>)
          /\ EdgeFrom("DYU", <<a, b - 1>>, <<0, 2>>)

\* edge lengths of a 2 x 2 cell grid have been returned; DXF[1, 1] is the
\* distance from compute grid point (4, 7) to (6, 7)
C13_Witness ==
    /\ pc = "done" /\ M = 2 /\ N = 2 /\ lon_subscale = 1 /\ lat_subscale = 2
    /\ EdgeOf("DXF").ends[1][1].p2 = <<6, 7>>
    /\ Item(outgrid.DXF, 1, 1) = CgDistance(<<4, 7>>, <<6, 7>>)
    /\ Item(outgrid.DXF, 1, 1) > 0

\* the compute grid point (i, j) as <<lon, lat>>
CgPoint(i, j) == <<Item(compute_grid.xg, i, j), Item(compute_grid.yg, i, j)>>

\* C14: in a returned grid XG[m, n], YG[m, n] is the compute grid point
\* (2*lon_subscale+2m, 2*lat_subscale+2n) and XC[m, n], YC[m, n] the point
\* (2*lon_subscale+1+2m, 2*lat_subscale+1+2n): the one lattice point strictly
\* between the lattice positions of the corners XG[m, n], XG[m+1, n],
\* XG[m, n+1], XG[m+1, n+1] of cell (m, n); every position read lies in
\* [2*lon_subscale, 2*lon_subscale+2M] x [2*lat_subscale, 2*lat_subscale+2N],
\* outside the halo.
C14_PositionFields ==
    pc = "done" =>
      LET a == 2 * lon_subscale
          b == 2 * lat_subscale
          corner(m, n) == <<a + 2 * m, b + 2 * n>>
          inside(m, n) ==
             {p \in (corner(m, n)[1] + 1 .. corner(m + 1, n)[1] - 1)
                     \X (corner(m, n)[2] + 1 .. corner(m, n + 1)[2] - 1) : TRUE}
      IN  /\ Shape(outgrid.XG) = <<M + 1, N + 1>> /\ Shape(outgrid.YG) = <<M + 1, N + 1>>
          /\ Shape(outgrid.XC) = <<M, N>> /\ Shape(outgrid.YC) = <<M, N>>
          /\ \A m \in 0 .. M, n \in 0 .. N :
                /\ <<Item(outgrid.XG, m, n), Item(outgrid.YG, m, n)>>
                     = CgPoint(corner(m, n)[1], corner(m, n)[2])
                /\ corner(m, n) \in (a .. a + 2 * M) \X (b .. b + 2 * N)
          /\ \A m \in 0 .. M - 1, n \in 0 .. N - 1 :
                /\ Cardinality(inside(m, n)) = 1
                /\ \A p \in inside(m, n) :
                      /\ <<Item(outgrid.XC, m, n), Item(outgrid.YC, m, n)>>
                           = CgPoint(p[1], p[2])
                      /\ p = <<a + 1 + 2 * m, b + 1 + 2 * n>>
                      /\ p \in (a .. a + 2 * M) \X (b .. b + 2 * N)

\* positions of a 2 x 2 cell grid have been returned; the centre of cell
\* (1, 1) is compute grid point (7, 5), between the corners (6, 4) and (8, 6)
C14_Witness ==
    /\ pc = "done" /\ M = 2 /\ N = 2 /\ lon_subscale = 2 /\ lat_subscale = 1
    /\ <<Item(outgrid.XC, 1, 1), Item(outgrid.YC, 1, 1)>> = CgPoint(7, 5)
    /\ <<Item(outgrid.XG, 1, 1), Item(outgrid.YG, 1, 1)>> = CgPoint(6, 4)
    /\ CgPoint(7, 5) # CgPoint(6, 4) /\ CgPoint(7, 5) # CgPoint(8, 6)

\* the padded region lies inside the source grid
StrictlyInside == ilb >= 1 /\ iub <= NI - 1 /\ jlb >= 1 /\ jub <= NJ - 1

\* in compute_grid_xg and in compute_grid_yg the positions (i, j) with i a
\* multiple of mi and j a multiple of mj have been written once, the others
\* never
WrittenOnceAt(mi, mj) ==
    \A i \in 0 .. compute_grid.xg.nr - 1, j \in 0 .. compute_grid.xg.nc - 1 :
       LET times == IF i % mi = 0 /\ j % mj = 0 THEN 1 ELSE 0
       IN  /\ compute_grid.xg.a[i][j].w = times
           /\ compute_grid.yg.a[i][j].w = times

\* C15: for a region with iub > ilb, jub > jlb whose padded region lies
\* inside the source grid, and subscale factors >= 1: the compute grid has
\* ((iub-ilb+2)*2*lon_subscale+1) x ((jub-jlb+2)*2*lat_subscale+1) positions;
\* after seeding exactly the anchors have been written, after the x-edge
\* fill exactly the positions of the anchor columns, after the y fill every
\* position, each exactly once, and no position holds its initial zero.
C15_WrittenOnce ==
    (/\ pc \notin {"locate", "allocate"}
     /\ iub > ilb /\ jub > jlb /\ StrictlyInside
     /\ lon_subscale >= 1 /\ lat_subscale >= 1) =>
      LET a == 2 * lon_subscale
          b == 2 * lat_subscale
      IN  /\ pc # "raised"
          /\ pc # "seed" =>
                /\ Shape(compute_grid.xg) = <<(iub - ilb + 2) * a + 1,
                                               (jub - jlb + 2) * b + 1>>
                /\ Shape(compute_grid.yg) = Shape(compute_grid.xg)
          /\ pc = "fill_x" =>
                WrittenOnceAt(a, b)
          /\ pc = "fill_y" =>
                WrittenOnceAt(1, b)
          /\ pc \notin {"seed", "fill_x", "fill_y"} =>
                /\ WrittenOnceAt(1, 1)
                /\ \A i \in 0 .. compute_grid.xg.nr - 1,
                      j \in 0 .. compute_grid.xg.nc - 1 :
                         compute_grid.xg.a[i][j] # Elem(0, 0)
                           /\ compute_grid.yg.a[i][j] # Elem(0, 0)

\* the 13 x 7 compute grid of an inner 1 x 1 region refined by 2 and 1 has
\* been filled
C15_Witness ==
    /\ pc = "areas" /\ iub - ilb = 1 /\ jub - jlb = 1 /\ StrictlyInside
    /\ lon_subscale = 2 /\ lat_subscale = 1
    /\ Shape(compute_grid.xg) = <<13, 7>>
    /\ compute_grid.xg.a[5][3].w = 1

\* position p of compute grid cg has been written, in xg and in yg
IsWritten(cg, p) == cg.xg.a[p[1]][p[2]].w >= 1 /\ cg.yg.a[p[1]][p[2]].w >= 1

\* in the iterations lo .. hi-1 of loop 2b, run from compute grid cg on, both
\* positions an iteration reads have been written when it reads them
RECURSIVE FillYReadsWritten(_, _, _, _, _)
FillYReadsWritten(cg, lt, nc, lo, hi) ==
    IF hi <= lo THEN TRUE
    ELSE LET e == FillYEnds(cg, lt, lo \div nc, lo % nc)
         IN  /\ IsWritten(cg, e.p1) /\ IsWritten(cg, e.p2)
             /\ e.p1 = <<lo \div nc, (lo % nc) * 2 * lt>>
             /\ e.p2 = <<lo \div nc, ((lo % nc) + 1) * 2 * lt>>
             /\ \A acc \in {FillYStep(cg, lt, lo \div nc, lo % nc)} :
                   FillYReadsWritten(acc, lt, nc, lo + 1, hi)

\* C16: when the y fill (step 2b) is about to run, the x-edge fill has
\* stored every point of its subdivisions and no y fill iteration has
\* stored anything; and both end points (i, q*2*lat_subscale) and
\* (i, (q+1)*2*lat_subscale) read by an iteration of the y fill have been
\* written, by the seeding or by the x-edge fill, when they are read.
C16_FillOrder ==
    pc = "fill_y" =>
      /\ \A p \in 0 .. FillXSliceI(compute_grid, lon_subscale).count - 1,
            q \in 0 .. FillXSliceJ(compute_grid, lat_subscale).count - 1,
            k \in 1 .. 2 * lon_subscale - 1 :
               compute_grid.xg.a[Icg(p, lon_subscale) + k][Jcg(q, lat_subscale)].w = 1
      /\ \A i \in 0 .. compute_grid.xg.nr - 1, j \in 0 .. compute_grid.xg.nc - 1 :
            j % (2 * lat_subscale) # 0 => compute_grid.xg.a[i][j].w = 0
      /\ FillYReadsWritten(compute_grid, lat_subscale,
                           FillYSliceJ(compute_grid, lat_subscale).count, 0,
                           FillYSliceI(compute_grid).count
                             * FillYSliceJ(compute_grid, lat_subscale).count)

\* source corner (i, j) of the file as <<lon, lat>>
SourcePoint(i, j) == <<Item(mitgrid.XG, i, j), Item(mitgrid.YG, i, j)>>

\* C17: a completed x-edge fill (step 2a) has read, in every iteration
\* (p, q), two anchors that the seeding wrote and that hold the original
\* corners (ilb-1+p, jlb-1+q) and (ilb+p, jlb-1+q); it has written only
\* positions (i, j) with j a multiple of 2*lat_subscale and i not a multiple
\* of 2*lon_subscale, exactly the 2*lon_subscale-1 positions between the two
\* anchors of every iteration, once each; every position whose j is not a
\* multiple of 2*lat_subscale and every anchor is as it was.
C17_FillXFrame ==
    [][(pc = "fill_x" /\ pc' = "fill_y") =>
         LET a == 2 * lon_subscale
             b == 2 * lat_subscale
             rows == 0 .. compute_grid.xg.nr - 1
             cols == 0 .. compute_grid.xg.nc - 1
             written(i, j) ==
                compute_grid'.xg.a[i][j].w - compute_grid.xg.a[i][j].w
         IN  /\ \A p \in 0 .. FillXSliceI(compute_grid, lon_subscale).count - 1,
                   q \in 0 .. FillXSliceJ(compute_grid, lat_subscale).count - 1 :
                   LET e == FillXEnds(compute_grid, lon_subscale, lat_subscale, p, q)
                   IN  /\ e.p1 = <<p * a, q * b>> /\ e.p2 = <<(p + 1) * a, q * b>>
                       /\ IsWritten(compute_grid, e.p1)
                       /\ IsWritten(compute_grid, e.p2)
                       /\ CgPoint(e.p1[1], e.p1[2])
                            = SourcePoint(ilb - 1 + p, jlb - 1 + q)
                       /\ CgPoint(e.p2[1], e.p2[2])
                            = SourcePoint(ilb + p, jlb - 1 + q)
                       /\ \A k \in 1 .. a - 1 : written(p * a + k, q * b) = 1
             /\ \A i \in rows, j \in cols :
                   /\ written(i, j) \in {0, 1}
                   /\ written(i, j) = 1 => j % b = 0 /\ i % a # 0
                   /\ (j % b # 0 \/ i % a = 0) =>
                         /\ compute_grid'.xg.a[i][j] = compute_grid.xg.a[i][j]
                         /\ compute_grid'.yg.a[i][j] = compute_grid.yg.a[i][j]
      ]_vars

\* ---------------------------------------- field assembly in any order
\* Step 4 of regrid with its fourteen assignment blocks (XC with YC, XG with
\* YG, and the twelve edge-length and area fields) run one at a time in an
\* arbitrary order, each exactly as regrid runs it: a block reads what its
\* code reads (the compute grid, compute_areas, or the output dictionary)
\* in the state it finds.
AssemblyBlocks == Names \ {"YC", "YG"}

\* the result of block k in the current state: out (and out2 for the second
\* array of a position block), or the exception it raises
FieldResult(k) ==
    CASE k = "XC" ->
           [err |-> "",
            out  |-> XCYC(compute_grid.xg, B, lon_subscale, lat_subscale),
            out2 |-> XCYC(compute_grid.yg, B, lon_subscale, lat_subscale)]
      [] k = "XG" ->
           [err |-> "",
            out  |-> XGYG(compute_grid.xg, B, lon_subscale, lat_subscale),
            out2 |-> XGYG(compute_grid.yg, B, lon_subscale, lat_subscale)]
      [] k = "DXG" -> DXG(outgrid, B, lon_subscale, lat_subscale)
      [] k = "DYG" -> DYG(outgrid, B, lon_subscale, lat_subscale)
      [] k \in AreaFields -> AreaOf(k)
      [] OTHER -> EdgeOf(k)

\* the single region and subscale factors of the any-order specification
InitAnyOrder == InitWith({MaxSub}, {1}, {Near(1, 2)}, {Near(2, 1)})

\* lines 256-268, followed by the assembly blocks in any order
StartAssembly ==
    /\ pc = "areas"
    /\ compute_areas' = ComputeAreas(compute_grid)
    /\ outgrid' = NewOutgrid
    /\ pc' = "assemble"
    /\ UNCHANGED <<args, located, bounds, compute_grid, ret, err>>

\* one assignment block of lines 282-736, not yet run
Assemble(k) ==
    /\ pc = "assemble"
    /\ outgrid[k] = NoneArray
    /\ LET r == FieldResult(k)
       IN  /\ outgrid' = IF k = "XC"
                         THEN [outgrid EXCEPT !.XC = r.out, !.YC = r.out2]
                         ELSE IF k = "XG"
                         THEN [outgrid EXCEPT !.XG = r.out, !.YG = r.out2]
                         ELSE [outgrid EXCEPT ![k] = r.out]
           /\ err' = r.err
           /\ pc' = IF r.err = "" THEN "assemble" ELSE "raised"
    /\ UNCHANGED <<args, located, bounds, compute_grid, compute_areas, ret>>

AssembleAny == \E k \in AssemblyBlocks : Assemble(k)

\* line 741, once every block has run
ReturnAssembled ==
    /\ pc = "assemble"
    /\ \A k \in Names : outgrid[k] # NoneArray
    /\ ret' = <<(iub - ilb) * lon_subscale, (jub - jlb) * lat_subscale>>
    /\ pc' = "done"
    /\ UNCHANGED <<args, located, bounds, compute_grid, compute_areas, outgrid, err>>

NextAnyOrder ==
    \/ Locate \/ Allocate \/ Seeding \/ FillXEdges \/ FillYEdges
    \/ StartAssembly \/ AssembleAny \/ ReturnAssembled

SpecAnyOrder == InitAnyOrder /\ [][NextAnyOrder]_vars

\* the grid regrid returns for the arguments of the current state
Sequential ==
    Regrid(lon1, lat1, lon2, lat2, lon_subscale, lat_subscale).newgrid

\* C18 as stated: with the compute grid and compute_areas built, the blocks
\* can run in any order: no block raises, and every field a block has
\* assigned is the field regrid returns.
C18_AnyOrder ==
    /\ pc # "raised"
    /\ pc \in {"assemble", "done"} =>
          \A g \in {Sequential} :
             \A k \in Names : outgrid[k] # NoneArray => outgrid[k] = g[k]

\* C18 as amended: the blocks can run in any order in which XG, YG are
\* assigned before DXG and DYG.  A block raises only if it is DXG or DYG run
\* while XG, YG hold None (these two read the output dictionary); otherwise
\* every field a block has assigned is the field regrid returns, whatever
\* other blocks have run, and the completed grid is the grid regrid returns.
C18_AnyOrderAfterXG ==
    /\ pc = "raised" =>
          /\ err = NoneSubscript
          /\ outgrid.XG = NoneArray /\ outgrid.YG = NoneArray
          /\ outgrid.DXG # NoneArray \/ outgrid.DYG # NoneArray
    /\ pc \in {"assemble", "done"} =>
          \A g \in {Sequential} :
             /\ \A k \in Names : outgrid[k] # NoneArray => outgrid[k] = g[k]
             /\ pc = "done" => outgrid = g

\* RAS, the last block of regrid, has run before XC, the first, and DXG
\* after XG
C18_Witness ==
    /\ pc = "assemble"
    /\ outgrid.RAS # NoneArray /\ outgrid.XC = NoneArray
    /\ outgrid.DXG # NoneArray /\ outgrid.DYG = NoneArray
    /\ outgrid.RAC = NoneArray /\ outgrid.DXC # NoneArray

\* all compute grid positions read by the edge-length loop result r
AllEnds(r) ==
    UNION {{r.ends[m][n].x1, r.ends[m][n].y1, r.ends[m][n].p2} :
              m \in DOMAIN r.ends, n \in DOMAIN r.ends[0]}

\* C19: in the assembly of a grid for a region with iub-ilb >= 1, jub-jlb >=
\* 1 and subscale factors >= 1, no loop fails on an index; every compute
\* grid position read lies in [0, (iub-ilb+2)*2*lon_subscale] x
\* [0, (jub-jlb+2)*2*lat_subscale], the bounds of the array, and at most one
\* lattice step outside [2*lon_subscale, 2*lon_subscale+2M] x
\* [2*lat_subscale, 2*lat_subscale+2N]; every compute_areas cell read lies
\* in the range one smaller in each axis and touches no lattice point
\* further out; DXG and DYG read XG, YG inside their bounds; and the
\* position partitions are not cut short by the array bounds.
C19_IndicesInBounds ==
    /\ err # OutOfBounds
    /\ pc = "done" =>
          LET a    == 2 * lon_subscale
              b    == 2 * lat_subscale
              maxi == (iub - ilb + 2) * a
              maxj == (jub - jlb + 2) * b
          IN  /\ iub - ilb >= 1 /\ jub - jlb >= 1
              /\ lon_subscale >= 1 /\ lat_subscale >= 1
              /\ Shape(compute_grid.xg) = <<maxi + 1, maxj + 1>>
              /\ Shape(compute_grid.yg) = <<maxi + 1, maxj + 1>>
              /\ Shape(compute_areas) = <<maxi, maxj>>
              /\ \A k \in EdgeFields \ {"DXG", "DYG"} :
                    /\ AllEnds(EdgeOf(k)) \subseteq (0 .. maxi) \X (0 .. maxj)
                    /\ AllEnds(EdgeOf(k)) \subseteq
                          (a - 1 .. a + 2 * M + 1) \X (b - 1 .. b + 2 * N + 1)
              /\ \A k \in AreaFields :
                    /\ AllReads(AreaOf(k)) \subseteq
                          (0 .. maxi - 1) \X (0 .. maxj - 1)
                    /\ AllReads(AreaOf(k)) \subseteq
                          (a - 1 .. a + 2 * M) \X (b - 1 .. b + 2 * N)
              /\ AllEnds(DXG(outgrid, B, lon_subscale, lat_subscale))
                    \subseteq (0 .. M) \X (0 .. N)
              /\ AllEnds(DYG(outgrid, B, lon_subscale, lat_subscale))
                    \subseteq (0 .. M) \X (0 .. N)
              /\ Shape(outgrid.XG) = <<M + 1, N + 1>>
              /\ Shape(outgrid.XC) = <<M, N>>

\* a grid of 4 x 3 cells has been returned; the DYU loop has read position
\* (4, 1) and the RAZ loop cell (12, 8), both one step outside the region
\* [4, 12] x [2, 8]
C19_Witness ==
    /\ pc = "done" /\ M = 4 /\ N = 3 /\ lon_subscale = 2 /\ lat_subscale = 1
    /\ <<4, 1>> \in AllEnds(EdgeOf("DYU"))
    /\ <<12, 8>> \in AllReads(AreaOf("RAZ"))
    /\ Shape(compute_areas) = <<16, 10>>

====
